---- MODULE Spec2Model ----
(***************************************************************************)
(* A model of the sqelf GELF server (sqelf/src/server.rs): the event loop  *)
(* of `build`, the TCP multiplexer `tcp::Listen`, the keep-alive wrapper   *)
(* `tcp::TimeoutStream` and the null-delimited framer `tcp::Decode`.       *)
(*                                                                         *)
(* Bytes are 0 (the NUL delimiter) and 1 (any other byte).  Buffers are    *)
(* sequences; offsets are 0-based as in the source, so src[a..b] is        *)
(* SubSeq(src, a + 1, b).                                                  *)
(***************************************************************************)
EXTENDS Integers, Sequences, FiniteSets

\* ------------------------------------------------------------- bounds
\* Number of TCP peers that may connect.
NConn == 3
\* Total number of bytes the server may read from all peers together: with
\* one peer, to follow the framer (FramerSpec), and with several peers.
MaxBytes == 5
MuxBytes == 2
\* Decode.max_size_bytes as configured for the modelled server.
max_size_bytes == 1
\* Listen.max as configured for the modelled multiplexer (1024 in the server).
max == 2
\* Bytes of the stream two framers read with different splittings.
SplitBytes == 4
\* Datagrams and receive errors the UDP receiver is followed over.
MaxDatagrams == 3
\* The keep-alive period of a session, in ticks of the clock.
KeepAlive == 2

Conns == 1..NConn
NUL == 0
Byte == {0, 1}
\* Option::None of `position`.
NoOffset == -1

Min2(a, b) == IF a < b THEN a ELSE b

\* --------------------------------------------------------- bytes::BytesMut
\* src[n..]: what `split_to(n)` and `advance(n)` leave in the buffer.
advance(src, n) == SubSeq(src, n + 1, Len(src))

\* src[..n]: what `split_to(n)` returns.
split_to(src, n) == SubSeq(src, 1, n)

\* src.slice_to(src.len() - 1): the frame without its trailing delimiter.
slice_whole(src) == src
slice_to_last(src) == SubSeq(src, 1, Len(src) - 1)

\* src[read_head..].iter().position(|b| *b == b'\0')
rposition(src, read_head) ==
    LET idx == {i \in (read_head + 1)..Len(src) : src[i] = NUL}
    IN  IF idx = {} THEN NoOffset
        ELSE (CHOOSE i \in idx : \A j \in idx : j <= i) - (read_head + 1)
position(src, read_head) ==
    LET idx == {i \in (read_head + 1)..Len(src) : src[i] = NUL}
    IN  IF idx = {} THEN NoOffset
        ELSE (CHOOSE i \in idx : \A j \in idx : i <= j) - (read_head + 1)

\* ------------------------------------------------- OptionMessageExt
\* The decoder callable answers "Some", "None" or "Err"; `?` carries Err out
\* and into_received maps Some(msg) to Complete(msg), None to Incomplete.
DecoderResult == {"Some", "None", "Err"}
into_received(r) ==
    CASE r = "Some" -> "Complete"
      [] r = "None" -> "Incomplete"
      [] OTHER      -> "Err"

\* ------------------------------------------------------ the framer log
\* What the framer has removed from the buffer, in order: each entry is a
\* frame handed to the decoder, a delimiter, or discarded bytes, with the
\* stream offset it was taken from and the discarding flag at that moment.
Entry(kind, off, bytes, disc) ==
    [kind |-> kind, off |-> off, bytes |-> bytes, discarding |-> disc]

\* Adjacent runs of discarded bytes are kept as one entry.
LogAppend(log, e) ==
    IF e.bytes = <<>> /\ e.kind = "discard" THEN log
    ELSE IF Len(log) > 0 /\ log[Len(log)].kind = "discard" /\ e.kind = "discard"
              /\ log[Len(log)].off + Len(log[Len(log)].bytes) = e.off
         THEN [log EXCEPT ![Len(log)].bytes = @ \o e.bytes]
         ELSE Append(log, e)

\* ------------------------------------------------------- tcp::Decode
\* The state one call of decode works on: the buffer `src`, the fields of
\* Decode, and what the call has done so far (`ret` is its return value:
\* "None" for Ok(None), otherwise the Received kind or "Err"; "Panic" when a
\* slice or advance is out of bounds).
DecodeState(src, read_head, discarding, base, log) ==
    [src |-> src, read_head |-> read_head, discarding |-> discarding,
     base |-> base, log |-> log, overflow |-> 0, ret |-> "None"]

\* frame_end > self.max_size_bytes, src.len() > self.max_size_bytes
ExceedsByTwo(n) == n > max_size_bytes + 1
NeverExceeds(n) == FALSE
exceeds(n) == n > max_size_bytes

\* frame_end + 1: the frame and its delimiter, as split off the buffer.
WithoutDelimiter(frame_end) == frame_end
with_delimiter(frame_end) == frame_end + 1

\* (false, Some(offset)) with frame_end > max_size_bytes, and
\* (false, None) if src.len() > max_size_bytes.
StartDiscardUncounted(d) == [d EXCEPT !.discarding = TRUE]
StartDiscard(d) == [d EXCEPT !.overflow = @ + 1, !.discarding = TRUE]

\* (false, Some(offset)) within the limit: split the frame off and hand it,
\* without its delimiter, to the decoder.
DeliverFrameKeepHead(d, frame_end, r) ==
    LET taken == split_to(d.src, with_delimiter(frame_end))
        frame == slice_to_last(taken)
    IN  [d EXCEPT !.src = advance(d.src, with_delimiter(frame_end)),
                  !.base = @ + with_delimiter(frame_end),
                  !.log = LogAppend(
                            LogAppend(@, Entry("frame", d.base, frame, d.discarding)),
                            Entry("delim", d.base + Len(frame),
                                  SubSeq(taken, Len(frame) + 1, Len(taken)),
                                  d.discarding)),
                  !.ret = into_received(r)]
DeliverFrame(d, frame_end, r) ==
    LET taken == split_to(d.src, with_delimiter(frame_end))
        frame == slice_to_last(taken)
    IN  [d EXCEPT !.read_head = 0,
                  !.src = advance(d.src, with_delimiter(frame_end)),
                  !.base = @ + with_delimiter(frame_end),
                  !.log = LogAppend(
                            LogAppend(@, Entry("frame", d.base, frame, d.discarding)),
                            Entry("delim", d.base + Len(frame),
                                  SubSeq(taken, Len(frame) + 1, Len(taken)),
                                  d.discarding)),
                  !.ret = into_received(r)]

\* src.advance(n) while discarding, read_head reset.
DiscardAndScan(d, n, flag) ==
    [d EXCEPT !.src = advance(d.src, n),
              !.base = @ + n,
              !.log = LogAppend(@, Entry("discard", d.base, split_to(d.src, n),
                                         d.discarding)),
              !.discarding = FALSE,
              !.read_head = 0]
Discard(d, n, flag) ==
    [d EXCEPT !.src = advance(d.src, n),
              !.base = @ + n,
              !.log = LogAppend(@, Entry("discard", d.base, split_to(d.src, n),
                                         d.discarding)),
              !.discarding = flag,
              !.read_head = 0]

RECURSIVE decode(_, _)
decode(d, r) ==
    IF d.read_head > Len(d.src) THEN [d EXCEPT !.ret = "Panic"]
    ELSE
    LET read_to == Min2(max_size_bytes + 1, Len(d.src))
        sep_offset == position(d.src, d.read_head)
    IN  CASE ~d.discarding /\ sep_offset # NoOffset ->
               LET frame_end == sep_offset + d.read_head
               IN  IF exceeds(frame_end)
                   THEN decode(StartDiscard(d), r)
                   ELSE DeliverFrame(d, frame_end, r)
          [] ~d.discarding /\ sep_offset = NoOffset /\ exceeds(Len(d.src)) ->
               decode(StartDiscard(d), r)
          [] ~d.discarding /\ sep_offset = NoOffset /\ ~exceeds(Len(d.src)) ->
               [d EXCEPT !.read_head = read_to]
          [] d.discarding /\ sep_offset # NoOffset ->
               decode(Discard(d, sep_offset + d.read_head + 1, FALSE), r)
          [] d.discarding /\ sep_offset = NoOffset ->
               LET d1 == Discard(d, read_to, TRUE)
               IN  IF d1.src = <<>> THEN d1 ELSE decode(d1, r)

\* The iterations of 'read_frame in one call of decode: whether the arm
\* taken from d ends in `continue 'read_frame`, the state the loop goes on
\* with, and the states at the top of every iteration, in order.
Continues(d) ==
    CASE ~d.discarding /\ position(d.src, d.read_head) # NoOffset ->
               exceeds(position(d.src, d.read_head) + d.read_head)
      [] ~d.discarding /\ position(d.src, d.read_head) = NoOffset ->
               exceeds(Len(d.src))
      [] d.discarding /\ position(d.src, d.read_head) # NoOffset -> TRUE
      [] d.discarding /\ position(d.src, d.read_head) = NoOffset ->
               Len(d.src) > Min2(max_size_bytes + 1, Len(d.src))

NextIteration(d) ==
    CASE ~d.discarding -> StartDiscard(d)
      [] d.discarding /\ position(d.src, d.read_head) # NoOffset ->
               Discard(d, position(d.src, d.read_head) + d.read_head + 1, FALSE)
      [] d.discarding /\ position(d.src, d.read_head) = NoOffset ->
               Discard(d, Min2(max_size_bytes + 1, Len(d.src)), TRUE)

RECURSIVE Iterations(_)
Iterations(d) ==
    IF d.read_head <= Len(d.src) /\ Continues(d)
    THEN <<d>> \o Iterations(NextIteration(d))
    ELSE <<d>>

\* decode_eof after its call of decode returned d1: a frame or an error is
\* passed on; on Ok(None) what is left in the buffer goes to the decoder.
decode_eof_none(d1, r) == d1
decode_eof_rest(d1, r) ==
    IF d1.ret # "None" THEN d1
    ELSE IF d1.src = <<>> THEN d1
    ELSE [d1 EXCEPT !.src = <<>>,
                    !.base = @ + Len(d1.src),
                    !.read_head = 0,
                    !.log = LogAppend(@, Entry("frame", d1.base, d1.src,
                                               d1.discarding)),
                    !.ret = into_received(r)]

decode_eof(d, r) == decode_eof_rest(decode(d, r), r)

\* ------------------------------------------------------- udp::Decode
\* src.take(): the whole of the buffer.
take_to_delimiter(src) ==
    IF position(src, 0) = NoOffset THEN src ELSE split_to(src, position(src, 0))
take(src) == src

\* decode on the buffer `src`: the frame the decoder is given, what is left
\* in the buffer and, the decoder having answered r, the return value.
UdpDecode(src, r) ==
    [frame |-> take(src), src |-> advance(src, Len(take(src))),
     ret |-> into_received(r)]

\* ------------------------------------------------------------- state
VARIABLES
    conn,         \* per peer: its connection, FramedRead, Decode and Timeout state
    backlog,      \* connections the listener holds, not yet accepted
    connections,  \* Listen.connections: the sessions in the active set
    metrics,      \* the counters of metrics!
    loop,         \* where the server is: built, running, stopped, failed, panicked
    handle,       \* the Handle: server (not taken), taken, closed, dropped
    exit,         \* the arm of select! that ended the loop: none, close, ctrl_c
    out,          \* every value the event loop got from incoming.next(), in
                  \* order: its kind, its connection, its frame's offset and
                  \* what process answered
    accept,       \* Listen.accept, the fused stream of accepted sessions: open,
                  \* ended (its next poll returns None) or done (it has)
    udp,          \* the UDP receiver: UdpFramed's read buffer and what it last did
    split         \* one stream read by two framers, each with its own splitting into reads

vars == <<conn, backlog, connections, metrics, loop, handle, exit, out,
         accept, udp, split>>

\* One peer's connection and, once accepted, its session
\* TimeoutStream(Timeout(FramedRead(conn, Decode))).
\*   st          idle, backlog, active or gone (evicted or dropped)
\*   stream      every byte read from the connection so far
\*   buffer, eof, is_readable   FramedRead's fields
\*   read_head, discarding      Decode's fields
\*   log         what Decode has removed from the buffer
\*   idle        Timeout's delay: ticks of the clock since it was last reset
NewConn ==
    [st |-> "idle", stream |-> <<>>, buffer |-> <<>>, eof |-> FALSE,
     is_readable |-> FALSE, read_head |-> 0, discarding |-> FALSE,
     log |-> <<>>, idle |-> 0]

\* The UDP receiver UdpFramed(socket, Decode) before its first datagram.
\*   rd          UdpFramed's read buffer
\*   received    datagrams received
\*   calls       invocations of the decoder
\*   datagram, frame, result   the last datagram, the frame the decoder
\*               was given for it and what the decoder answered
NewUdp ==
    [rd |-> <<>>, received |-> 0, calls |-> 0, datagram |-> <<>>,
     frame |-> <<>>, result |-> "none"]

\* Bytes of the stream the framer has removed from its buffer.
Consumed(s) == Len(s.stream) - Len(s.buffer)

\* What a read of the socket returns: nothing yet, some bytes, 0 bytes (the
\* peer has closed) or an io::Error.
Pending == [kind |-> "Pending", bytes |-> <<>>]
Eof == [kind |-> "Eof", bytes |-> <<>>]
IoError == [kind |-> "IoError", bytes |-> <<>>]
Data(bytes) == [kind |-> "Data", bytes |-> bytes]

\* The result of polling one session: the session after the poll, what the
\* poll returned ("Pending", "End" for Ready(None), "IoErr" for the error of
\* a read, or the item's kind) and the counter increments it made.
Polled(s, poll, overflow) ==
    [s |-> s, poll |-> poll, overflow |-> overflow, timeout |-> 0]

\* Decode's fields and the buffer after a call.
WithDecodeScanning(s, d) ==
    [s EXCEPT !.buffer = d.src, !.read_head = d.read_head,
              !.discarding = FALSE, !.log = d.log]
WithDecode(s, d) ==
    [s EXCEPT !.buffer = d.src, !.read_head = d.read_head,
              !.discarding = d.discarding, !.log = d.log]

DecodeOf(s) ==
    DecodeState(s.buffer, s.read_head, s.discarding, Consumed(s), s.log)

\* tokio's FramedRead::poll_next over Decode: decode what is buffered, then
\* read, until a frame, an error, the end or Pending.  `rd` is what the read
\* returns; a second read in the same poll finds nothing more.  The error of
\* a read is returned as it is.
RECURSIVE FramedRead_poll_next(_, _, _, _)

\* is_readable and eof: return what decode_eof gave, None ending the stream.
FramedRead_eof(s, d, overflow) ==
    Polled(WithDecode(s, d), IF d.ret = "None" THEN "End" ELSE d.ret,
           overflow + d.overflow)

\* is_readable: return the frame decode gave, or on Ok(None) go on to read.
FramedRead_decoded(s, d, rd, r, overflow) ==
    IF d.ret # "None"
    THEN Polled(WithDecode(s, d), d.ret, overflow + d.overflow)
    ELSE FramedRead_poll_next([WithDecode(s, d) EXCEPT !.is_readable = FALSE],
                              rd, r, overflow + d.overflow)

FramedRead_poll_next(s, rd, r, overflow) ==
    IF s.is_readable /\ s.eof
    THEN FramedRead_eof(s, decode_eof(DecodeOf(s), r), overflow)
    ELSE IF s.is_readable
    THEN FramedRead_decoded(s, decode(DecodeOf(s), r), rd, r, overflow)
    ELSE CASE rd.kind = "Data" ->
                FramedRead_poll_next(
                    [s EXCEPT !.buffer = @ \o rd.bytes,
                              !.stream = @ \o rd.bytes,
                              !.is_readable = TRUE], Pending, r, overflow)
           [] rd.kind = "Eof" ->
                FramedRead_poll_next(
                    [s EXCEPT !.eof = TRUE, !.is_readable = TRUE], Pending, r,
                    overflow)
           [] rd.kind = "IoError" -> Polled(s, "IoErr", overflow)
           [] OTHER -> Polled(s, "Pending", overflow)

\* TimeoutStream::poll_next over tokio's Timeout: the protocol is polled
\* first and an item of it resets the delay; with nothing ready the delay is
\* polled, and if it has fired (no reset for a keep-alive period) the stream
\* ends and tcp_conn_timeout is incremented.
\* delay.reset_timeout(): only for an item of the protocol.
reset_always(p) == [p EXCEPT !.s.idle = 0]
reset_timeout(p) ==
    IF p.poll \in {"Pending", "End"} THEN p ELSE [p EXCEPT !.s.idle = 0]

Timeout_poll_next(p, fired) ==
    IF p.poll = "Pending" /\ fired
    THEN [p EXCEPT !.poll = "End", !.timeout = 1]
    ELSE reset_timeout(p)

TimeoutStream_poll_next(s, rd, fired, r) ==
    Timeout_poll_next(FramedRead_poll_next(s, rd, r, 0), fired)

\* ------------------------------------------------------- UdpFramed
\* tokio's UdpFramed::poll_next when the socket has something: the datagram
\* is received into the read buffer, the buffer is decoded once and then
\* cleared; the error of the receive is returned as it is.
UdpDecoded(u, datagram, d, r) ==
    [udp |-> [rd |-> <<>>, received |-> u.received + 1,
              calls |-> u.calls + 1, datagram |-> datagram,
              frame |-> d.frame, result |-> r],
     item |-> [kind |-> d.ret, conn |-> 0, off |-> NoOffset]]

UdpFramed_poll_next(u, rd, r) ==
    IF rd.kind = "IoError"
    THEN [udp |-> u, item |-> [kind |-> "Err", conn |-> 0, off |-> NoOffset]]
    ELSE UdpDecoded(u, rd.bytes, UdpDecode(u.rd \o rd.bytes, r), r)

\* ------------------------------------------------------- tcp::Listen
\* The state Listen::poll_next works on, and what it returns: `item` is
\* "Pending", or the kind of the item with the connection it came from and
\* the stream offset of the frame the decoder was given (NoOffset for the
\* error of a read, which comes with no frame).
NoItem == [kind |-> "Pending"]
ListenState(c, b, a, m, acc) ==
    [conn |-> c, backlog |-> b, connections |-> a, metrics |-> m,
     accept |-> acc, item |-> NoItem]

\* TimeoutStream::new on an accepted connection, pushed on the active set.
Admit(L) ==
    LET c == Head(L.backlog)
    IN  [L EXCEPT !.backlog = Tail(@),
                  !.conn[c].st = "active",
                  !.connections = @ \cup {c},
                  !.metrics.tcp_conn_accept = @ + 1]

\* self.connections.len() < self.max
HasRoomForOneMore(L) == Cardinality(L.connections) <= max
HasRoom(L) == Cardinality(L.connections) < max

\* 'fill_conns: with room in the set the fused accept stream is polled; it
\* gives the next accepted session, or is Pending, or has ended, which the
\* Fuse remembers.
RECURSIVE fill_conns(_)
fill_conns(L) ==
    IF HasRoom(L) /\ L.backlog # <<>>
    THEN fill_conns(Admit(L))
    ELSE IF HasRoom(L) /\ L.accept = "ended"
    THEN [L EXCEPT !.accept = "done"]
    ELSE L

\* The session leaves the active set and is dropped (TimeoutStream::drop).
EvictUncounted(L, c) ==
    [L EXCEPT !.conn[c].st = "gone", !.connections = @ \ {c}]
Evict(L, c) ==
    [L EXCEPT !.conn[c].st = "gone",
              !.connections = @ \ {c},
              !.metrics.tcp_conn_close = @ + 1]

\* The frame the decoder was last given on this connection.
LastFrame(s) ==
    LET idx == {i \in 1..Len(s.log) : s.log[i].kind = "frame"}
        i == CHOOSE k \in idx : \A j \in idx : j <= k
    IN  s.log[i]

Item(kind, c, s) == [kind |-> kind, conn |-> c, off |-> LastFrame(s).off]

\* Ok(item): the session goes back into the set and the item is returned.
ReturnOk(L, c, kind) == [L EXCEPT !.item = Item(kind, c, L.conn[c])]

\* Err(err): the session is not put back; the error is returned.
ReturnErrAndKeep(L, c) == [L EXCEPT !.item = Item("Err", c, L.conn[c])]
ReturnErr(L, c) == [Evict(L, c) EXCEPT !.item = Item("Err", c, L.conn[c])]
ReturnIoErr(L, c) ==
    [Evict(L, c) EXCEPT !.item = [kind |-> "Err", conn |-> c, off |-> NoOffset]]

\* Listen::poll_next in which the active set polls session c (the session
\* that was woken, if any), whose read returns rd and whose keep-alive delay
\* has fired or not.
\* The session and the counters after the poll of session c.
AfterPoll(L, c, p) ==
    [L EXCEPT !.conn[c] = p.s,
              !.metrics.tcp_msg_overflow = @ + p.overflow,
              !.metrics.tcp_conn_timeout = @ + p.timeout]

\* The match on what the active set returned.
MatchPolled(L1, c, poll) ==
    CASE poll = "Pending" -> L1
      [] poll = "End" -> fill_conns(Evict(L1, c))
      [] poll = "Err" -> ReturnErr(L1, c)
      [] poll = "IoErr" -> ReturnIoErr(L1, c)
      [] poll = "Panic" -> [L1 EXCEPT !.item = [kind |-> "Panic"]]
      [] OTHER -> ReturnOk(L1, c, poll)

PollConns(L, c, p) == MatchPolled(AfterPoll(L, c, p), c, p.poll)

PollFilled(L, c, rd, fired, r) ==
    IF c \notin L.connections THEN L
    ELSE PollConns(L, c, TimeoutStream_poll_next(L.conn[c], rd, fired, r))

\* Nothing to return: Ready(None) if self.accept.is_done(), else Pending.
EndOfListen(L) ==
    IF L.item = NoItem /\ L.accept = "done"
    THEN [L EXCEPT !.item = [kind |-> "None"]]
    ELSE L

Listen_poll_next(L0, c, rd, fired, r) ==
    EndOfListen(PollFilled(fill_conns(L0), c, rd, fired, r))

\* ------------------------------------------- one stream, two framers
\* A framer FramedRead(conn, Decode) and what it has done over its reads:
\* the lengths of the reads, the frames the decoder was given, with their
\* offsets, the overflows counted and whether the stream has ended.
NewRun ==
    [s |-> NewConn, reads |-> <<>>, frames |-> <<>>, overflow |-> 0,
     done |-> FALSE]
NewSplit(stream) == [stream |-> stream, left |-> NewRun, right |-> NewRun]
NoSplit == NewSplit(<<>>)

\* The frame of the last call of the decoder.
FrameOf(s) == [off |-> LastFrame(s).off, bytes |-> LastFrame(s).bytes]

\* The framer is polled until it is Pending or has ended; p is what the
\* last poll returned and rd what a further read returns.  The decoder
\* never fails: every frame is a Complete.
RECURSIVE Drain(_, _, _)
Drain(run, p, rd) ==
    IF p.poll = "Complete"
    THEN Drain([run EXCEPT !.frames = Append(@, FrameOf(p.s)),
                           !.overflow = @ + p.overflow],
               FramedRead_poll_next(p.s, rd, "Some", 0), rd)
    ELSE [run EXCEPT !.s = p.s,
                     !.overflow = @ + p.overflow,
                     !.done = (p.poll = "End")]

\* A read returns the next n bytes of the stream.
ReadChunk(run, stream, n) ==
    Drain([run EXCEPT !.reads = Append(@, n)],
          FramedRead_poll_next(
              run.s,
              Data(SubSeq(stream, Len(run.s.stream) + 1,
                          Len(run.s.stream) + n)),
              "Some", 0),
          Pending)

\* A read returns 0 bytes: the stream has ended.
ReadEnd(run) ==
    Drain(run, FramedRead_poll_next(run.s, Eof, "Some", 0), Eof)

\* -------------------------------------------------------------- peers
RECURSIVE SumLen(_)
SumLen(S) ==
    IF S = {} THEN 0
    ELSE LET c == CHOOSE x \in S : TRUE
         IN  Len(conn[c].stream) + SumLen(S \ {c})

\* Bytes read so far from all connections.
BytesRead == SumLen(Conns)

\* The chunks of bytes one read may return.
RECURSIVE Chunks(_)
Chunks(n) ==
    IF n = 0 THEN {<<>>}
    ELSE Chunks(n - 1) \cup
         {Append(s, b) : s \in {t \in Chunks(n - 1) : Len(t) = n - 1}, b \in Byte}

Reads(budget) ==
    {Pending, Eof, IoError} \cup
    {Data(bytes) : bytes \in Chunks(budget - BytesRead) \ {<<>>}}

\* The reads of a connection whose bytes arrive one at a time.
ByteReads(budget) == {rd \in Reads(budget) : Len(rd.bytes) <= 1}

\* A peer connects: the listener holds the connection until it is accepted.
PeerConnect(c) ==
    /\ loop = "running"
    /\ accept = "open"
    /\ conn[c].st = "idle"
    /\ \A k \in Conns : k < c => conn[k].st # "idle"
    /\ conn' = [conn EXCEPT ![c].st = "backlog"]
    /\ backlog' = Append(backlog, c)
    /\ UNCHANGED <<connections, metrics, loop, handle, exit, out, accept,
                   udp, split>>

\* ------------------------------------------------------------ Handle
take_handle ==
    /\ loop = "built"
    /\ handle = "server"
    /\ handle' = "taken"
    /\ UNCHANGED <<conn, backlog, connections, metrics, loop, exit, out,
                   accept, udp, split>>

\* Handle::close: send () on the oneshot channel.
close ==
    /\ handle = "taken"
    /\ handle' = "closed"
    /\ UNCHANGED <<conn, backlog, connections, metrics, loop, exit, out,
                   accept, udp, split>>

\* The embedder drops the Handle, and with it the oneshot Sender.
DropHandle ==
    /\ handle = "taken"
    /\ handle' = "dropped"
    /\ UNCHANGED <<conn, backlog, connections, metrics, loop, exit, out,
                   accept, udp, split>>

\* -------------------------------------------------------- Server::run
\* Server::run drives the future of build: bind the socket, then loop.
\* A bind failure ends the future at once.
run ==
    /\ loop = "built"
    /\ \E bound \in BOOLEAN : loop' = IF bound THEN "running" ELSE "failed"
    /\ UNCHANGED <<conn, backlog, connections, metrics, handle, exit, out,
                   accept, udp, split>>

\* What the caller has in hand.  build has returned Ok(Server { .. }) in
\* every state (Init is the state it returns in: the address has parsed and
\* ctrl_c() has succeeded).  run returns Ok(()) when the future of build has
\* ended, whether the loop was left or the bind failed: the error of the
\* bind is logged by the future and goes no further.
build_result == "Ok"
run_result == IF loop \in {"stopped", "failed"} THEN "Ok" ELSE "none"

\* The oneshot Receiver `close` resolves when a value was sent, and also when
\* the Sender was dropped.
SenderDropped == handle = "dropped"
CloseResolved == handle \in {"closed", "dropped"}

\* process(msg) answered Ok(()) or Err(err).
ProcessOkOnly(m, pr) ==
    IF pr = "Ok" THEN [m EXCEPT !.process_ok = @ + 1] ELSE m
Process(m, pr) ==
    IF pr = "Ok" THEN [m EXCEPT !.process_ok = @ + 1]
    ELSE [m EXCEPT !.process_err = @ + 1]

\* The arm of select! on incoming.next().
Receive(m, kind, pr) ==
    CASE kind = "Complete" -> Process([m EXCEPT !.receive_ok = @ + 1], pr)
      [] kind = "Err" -> [m EXCEPT !.receive_err = @ + 1]
      [] OTHER -> m

\* Whether the arm leaves the loop running (None is unreachable!).
StopsOnErr(kind) == kind \notin {"Panic", "None", "Err"}
StaysRunning(kind) == kind \notin {"Panic", "None"}

\* The loop's match on Some(item): every item is recorded as it arrives,
\* a Complete with what process answered to it.
Observe(o, item, pr) ==
    IF item.kind \in {"Complete", "Incomplete", "Err"}
    THEN Append(o, [kind |-> item.kind, conn |-> item.conn, off |-> item.off,
                    process |-> IF item.kind = "Complete" THEN pr ELSE "none"])
    ELSE o

\* One turn of the loop in which select! takes incoming.next().
\* The arm on what incoming.next() returned.
Incoming(L, pr) ==
    /\ conn' = L.conn
    /\ backlog' = L.backlog
    /\ connections' = L.connections
    /\ accept' = L.accept
    /\ metrics' = Receive(L.metrics, L.item.kind, pr)
    /\ loop' = IF StaysRunning(L.item.kind) THEN "running" ELSE "panicked"
    /\ out' = Observe(out, L.item, pr)

LoopIncoming(c, rd, fired, r, pr) ==
    /\ loop = "running"
    /\ Incoming(Listen_poll_next(
                    ListenState(conn, backlog, connections, metrics, accept),
                    c, rd, fired, r), pr)
    /\ UNCHANGED <<handle, exit, udp, split>>

\* One turn of the loop of a server bound with Protocol::Udp in which
\* select! takes incoming.next(): the socket has a datagram or an error.
UdpIncoming(U, pr) ==
    /\ udp' = U.udp
    /\ metrics' = Receive(metrics, U.item.kind, pr)
    /\ out' = Observe(out, U.item, pr)

LoopDatagram(rd, r, pr) ==
    /\ loop = "running"
    /\ Len(out) < MaxDatagrams
    /\ UdpIncoming(UdpFramed_poll_next(udp, rd, r), pr)
    /\ UNCHANGED <<conn, backlog, connections, loop, handle, exit, accept,
                   split>>

\* Leaving the loop drops `incoming` and every session in it.
DropSessions ==
    /\ conn' = [c \in Conns |->
                  IF c \in connections THEN [conn[c] EXCEPT !.st = "gone"]
                  ELSE conn[c]]
    /\ connections' = {}
    /\ metrics' = [metrics EXCEPT
                     !.tcp_conn_close = @ + Cardinality(connections)]

\* One turn of the loop in which select! takes `close`.
LoopClose ==
    /\ loop = "running"
    /\ CloseResolved
    /\ loop' = "stopped"
    /\ exit' = "close"
    /\ DropSessions
    /\ UNCHANGED <<backlog, handle, out, accept, udp, split>>

\* One turn of the loop in which select! takes ctrl_c.next(): the operating
\* system has delivered an interrupt.
LoopCtrlC ==
    /\ loop = "running"
    /\ loop' = "stopped"
    /\ exit' = "ctrl_c"
    /\ DropSessions
    /\ UNCHANGED <<backlog, handle, out, accept, udp, split>>

\* ------------------------------------------------------ specification
\* The state build returns in, for all but the two framers of `split`.
Built ==
    /\ conn = [c \in Conns |-> NewConn]
    /\ backlog = <<>>
    /\ connections = {}
    /\ metrics = [receive_ok |-> 0, receive_err |-> 0, process_ok |-> 0,
                  process_err |-> 0, tcp_conn_accept |-> 0, tcp_conn_close |-> 0,
                  tcp_conn_timeout |-> 0, tcp_msg_overflow |-> 0]
    /\ loop = "built"
    /\ handle = "server"
    /\ exit = "none"
    /\ out = <<>>
    /\ accept = "open"
    /\ udp = NewUdp

Init == Built /\ split = NoSplit

\* The same, with a stream for the two framers to read.
SplitInit == Built /\ split \in {NewSplit(stream) : stream \in Chunks(SplitBytes)}

\* The inputs of one call of Listen::poll_next that make a difference: the
\* session c the active set polls (0: none was woken), what its read returns,
\* whether its keep-alive delay has fired (asked only when the protocol is
\* Pending), what the decoder answers (asked only when it is invoked) and
\* what process answers to a Complete.
Answers(poll) ==
    CASE poll = "Pending" -> {<<f, "Some", "Ok">> : f \in BOOLEAN}
      [] poll \in {"End", "Panic", "IoErr"} -> {<<FALSE, "Some", "Ok">>}
      [] OTHER -> {<<FALSE, "Some", "Ok">>, <<FALSE, "Some", "Err">>,
                   <<FALSE, "None", "Ok">>, <<FALSE, "Err", "Ok">>}

\* The connections whose session the active set may find woken.
Woken == {k \in Conns : conn[k].st \in {"backlog", "active"}}

\* One turn of the loop in which session c is polled and its read returns rd.
Poll(c, rd) ==
    \E a \in Answers(FramedRead_poll_next(conn[c], rd, "Some", 0).poll) :
        LoopIncoming(c, rd, a[1], a[2], a[3])

\* The server and `peers` peers, which send `budget` bytes at most.
Server(peers, budget) ==
    \/ \E c \in 1..peers : PeerConnect(c)
    \/ run
    \/ LoopIncoming(0, Pending, FALSE, "Some", "Ok")
    \/ \E c \in Woken, rd \in Reads(budget) : Poll(c, rd)
    \/ LoopCtrlC

\* The server and one peer whose bytes arrive one at a time.
Trickle(budget) ==
    \/ PeerConnect(1)
    \/ run
    \/ LoopIncoming(0, Pending, FALSE, "Some", "Ok")
    \/ \E c \in Woken, rd \in ByteReads(budget) : Poll(c, rd)
    \/ LoopCtrlC

\* The clock ticks: the delay of every session comes one tick nearer to the
\* end of its keep-alive period.
Tick ==
    /\ loop = "running"
    /\ \E c \in connections : conn[c].idle < KeepAlive
    /\ conn' = [c \in Conns |->
                  IF c \in connections /\ conn[c].idle < KeepAlive
                  THEN [conn[c] EXCEPT !.idle = @ + 1]
                  ELSE conn[c]]
    /\ UNCHANGED <<backlog, connections, metrics, loop, handle, exit, out,
                   accept, udp, split>>

\* The delay of a session has elapsed: a keep-alive period without a reset.
Elapsed(s) == s.idle >= KeepAlive

\* One turn of the loop in which session c is polled, its read returns rd
\* and its delay has elapsed or not as the clock says.
TimedPoll(c, rd) ==
    \E a \in Answers(FramedRead_poll_next(conn[c], rd, "Some", 0).poll) :
        LoopIncoming(c, rd, Elapsed(conn[c]), a[2], a[3])

\* The server under a clock: a delay fires when its period has passed.
Watchdog(peers, budget) ==
    \/ \E c \in 1..peers : PeerConnect(c)
    \/ run
    \/ LoopIncoming(0, Pending, FALSE, "Some", "Ok")
    \/ \E c \in Woken, rd \in Reads(budget) : TimedPoll(c, rd)
    \/ Tick
    \/ LoopCtrlC

\* One of the two framers reads: the next bytes of the stream, as many as
\* the network gives it, or the end.
SplitRead(side) ==
    /\ ~split[side].done
    /\ Len(split[side].s.stream) < Len(split.stream)
    /\ \E n \in 1..(Len(split.stream) - Len(split[side].s.stream)) :
           split' = [split EXCEPT
                       ![side] = ReadChunk(split[side], split.stream, n)]
    /\ UNCHANGED <<conn, backlog, connections, metrics, loop, handle, exit,
                   out, accept, udp>>

SplitEnd(side) ==
    /\ ~split[side].done
    /\ Len(split[side].s.stream) = Len(split.stream)
    /\ split' = [split EXCEPT ![side] = ReadEnd(split[side])]
    /\ UNCHANGED <<conn, backlog, connections, metrics, loop, handle, exit,
                   out, accept, udp>>

\* The stream Listen accepts from comes to its end: once the sessions it
\* still holds are taken, its next poll returns None.
ListenerEnds ==
    /\ loop = "running"
    /\ accept = "open"
    /\ accept' = "ended"
    /\ UNCHANGED <<conn, backlog, connections, metrics, loop, handle, exit,
                   out, udp, split>>

\* An embedder that takes the Handle, and what the loop does on its signal.
Embedder ==
    \/ take_handle
    \/ close
    \/ DropHandle
    \/ LoopClose

\* The server with its embedder, and as many peers as the multiplexer admits.
Next == Server(max, MuxBytes) \/ Embedder
Spec == Init /\ [][Next]_vars

\* Two peers, and an embedder that keeps the Handle until it closes the
\* server.
LoopNext == Server(2, MuxBytes) \/ take_handle \/ close \/ LoopClose
LoopSpec == Init /\ [][LoopNext]_vars

\* Two peers; the Handle stays in the Server.
PairNext == Server(2, MuxBytes)
PairSpec == Init /\ [][PairNext]_vars

\* More peers than the multiplexer admits, with one byte less.
MuxNext == Server(NConn, MuxBytes - 1)
MuxSpec == Init /\ [][MuxNext]_vars

\* One connection, to follow the framer over longer streams.
FramerNext == Server(1, MaxBytes)
FramerSpec == Init /\ [][FramerNext]_vars

\* Listen over a stream of accepted sessions that may end.
ListenNext == Server(max, MuxBytes - 1) \/ ListenerEnds
ListenSpec == Init /\ [][ListenNext]_vars

\* The server bound with Protocol::Udp: datagrams of MuxBytes bytes at most.
UdpNext ==
    \/ run
    \/ \E bytes \in Chunks(MuxBytes), a \in Answers("Complete") :
           LoopDatagram(Data(bytes), a[2], a[3])
    \/ LoopDatagram(IoError, "Some", "Ok")
    \/ LoopCtrlC
UdpSpec == Init /\ [][UdpNext]_vars

\* One connection whose every record of two bytes or more is split.
TrickleNext == Trickle(MaxBytes)
TrickleSpec == Init /\ [][TrickleNext]_vars

\* Two framers read one stream, each with its own splitting into reads.
SplitNext ==
    \/ \E side \in {"left", "right"} : SplitRead(side)
    \/ \E side \in {"left", "right"} : SplitEnd(side)
SplitSpec == SplitInit /\ [][SplitNext]_vars

\* One connection under the clock.
WatchdogNext == Watchdog(1, MuxBytes)
WatchdogSpec == Init /\ [][WatchdogNext]_vars

\* select! polls its arms in a random order on every turn, so an arm that
\* stays ready is taken in the end: the close arm is not starved by the
\* receiver.
LiveNext == Server(1, MuxBytes) \/ Embedder
LiveSpec == Init /\ [][LiveNext]_vars /\ WF_vars(LoopClose)

\* ============================================================ properties
\* The records of a byte sequence: its NUL-separated pieces with the offset
\* each starts at; the last one is not delimited when bytes follow the last
\* NUL.
FirstNul(s) ==
    IF \E i \in 1..Len(s) : s[i] = NUL
    THEN CHOOSE i \in 1..Len(s) : s[i] = NUL /\ \A j \in 1..(i - 1) : s[j] # NUL
    ELSE 0

RECURSIVE RecordsOf(_, _)
RecordsOf(s, off) ==
    IF s = <<>> THEN <<>>
    ELSE IF FirstNul(s) = 0
    THEN <<[off |-> off, bytes |-> s, delimited |-> FALSE]>>
    ELSE <<[off |-> off, bytes |-> SubSeq(s, 1, FirstNul(s) - 1),
            delimited |-> TRUE]>>
         \o RecordsOf(SubSeq(s, FirstNul(s) + 1, Len(s)), off + FirstNul(s))

\* The bytes of its stream the framer of a connection has removed from the
\* buffer, and the records in them.
ConsumedBytes(s) == SubSeq(s.stream, 1, Consumed(s))
ConsumedRecords(s) == RecordsOf(ConsumedBytes(s), 0)

IsFrame(e) == e.kind = "frame"
Frames(s) == SelectSeq(s.log, IsFrame)
Oversize(rec) == Len(rec.bytes) > max_size_bytes
Fits(rec) == Len(rec.bytes) <= max_size_bytes

\* Position pos of the stream was removed from the buffer as `kind`.
Covered(s, kind, pos) ==
    \E i \in 1..Len(s.log) :
        /\ s.log[i].kind = kind
        /\ s.log[i].off <= pos
        /\ pos < s.log[i].off + Len(s.log[i].bytes)

\* The positions of a record, its delimiter included.
Positions(rec) ==
    rec.off..(rec.off + Len(rec.bytes) - (IF rec.delimited THEN 0 ELSE 1))

Range(seq) == {seq[i] : i \in 1..Len(seq)}

\* C1: no frame handed to the decoder (by decode or decode_eof) is longer
\* than max_size_bytes; every byte of a record longer than that, its trailing
\* NUL included, is discarded; and a record of at most max_size_bytes (so one
\* of exactly max_size_bytes) that the framer has taken from the buffer was
\* handed to the decoder whole.
C1_NoOversizeFrame ==
    \A c \in Conns :
        /\ \A e \in Range(Frames(conn[c])) : Len(e.bytes) <= max_size_bytes
        /\ \A rec \in Range(ConsumedRecords(conn[c])) :
              /\ Oversize(rec) =>
                    \A pos \in Positions(rec) : Covered(conn[c], "discard", pos)
              /\ Fits(rec) =>
                    \E e \in Range(Frames(conn[c])) :
                        e.off = rec.off /\ e.bytes = rec.bytes

\* A connection on which a record of more than max_size_bytes was dropped
\* with its NUL and a record of exactly max_size_bytes was delivered.
C1_Witness ==
    \E c \in Conns :
        /\ \E rec \in Range(ConsumedRecords(conn[c])) :
              Oversize(rec) /\ rec.delimited
        /\ \E e \in Range(Frames(conn[c])) :
              Len(e.bytes) = max_size_bytes /\ max_size_bytes > 0

\* The number of records longer than max_size_bytes in what the framer of a
\* connection has taken from its buffer.
OversizeCount(s) == Cardinality({i \in 1..Len(ConsumedRecords(s)) :
                                    Oversize(ConsumedRecords(s)[i])})

RECURSIVE SumOversize(_)
SumOversize(S) ==
    IF S = {} THEN 0
    ELSE LET c == CHOOSE x \in S : TRUE
         IN  OversizeCount(conn[c]) + SumOversize(S \ {c})

\* C2: tcp_msg_overflow counts exactly the records longer than
\* max_size_bytes that the framers have met (delimited, or still being
\* discarded, or cut off by the end of the stream), once each, and no record
\* of at most max_size_bytes.
C2_OverflowOncePerRecord == metrics.tcp_msg_overflow = SumOversize(Conns)

\* An oversize record without delimiter, cut off by the end of the stream,
\* was counted once, after a record that fits was not counted.
C2_Witness ==
    \E c \in Conns :
        /\ conn[c].eof /\ conn[c].discarding /\ conn[c].st = "gone"
        /\ \E rec \in Range(ConsumedRecords(conn[c])) : Fits(rec)
        /\ metrics.tcp_msg_overflow = 1

\* The records the framer hands on: those of at most max_size_bytes.
RECURSIVE Fitting(_)
Fitting(recs) ==
    IF recs = <<>> THEN <<>>
    ELSE IF Fits(Head(recs)) THEN <<Head(recs)>> \o Fitting(Tail(recs))
    ELSE Fitting(Tail(recs))

\* What the loop got from connection c, and what of it came of a frame.
FromConn(c) == SelectSeq(out, LAMBDA item : item.conn = c)
OfFrames(c) == SelectSeq(out, LAMBDA item : item.conn = c /\ item.off # NoOffset)

\* C3: on every connection the frames handed to the decoder are, in order,
\* the records of the stream (those that fit), and the values the loop gets
\* from that connection are the outcomes of these frames in the same order,
\* whatever arrives from other connections in between.
C3_DeliveryInDelimiterOrder ==
    \A c \in Conns :
        /\ Len(Frames(conn[c])) = Len(Fitting(ConsumedRecords(conn[c])))
        /\ \A i \in 1..Len(Frames(conn[c])) :
              /\ Frames(conn[c])[i].off = Fitting(ConsumedRecords(conn[c]))[i].off
              /\ Frames(conn[c])[i].bytes = Fitting(ConsumedRecords(conn[c]))[i].bytes
        /\ Len(OfFrames(c)) = Len(Frames(conn[c]))
        /\ \A i \in 1..Len(OfFrames(c)) :
              OfFrames(c)[i].off = Frames(conn[c])[i].off

\* Two Completes of one connection reached the loop around a value of
\* another connection.
C3_Witness ==
    \E i, j, k \in 1..Len(out) :
        /\ i < j /\ j < k
        /\ out[i].conn = out[k].conn /\ out[j].conn # out[i].conn
        /\ out[i].kind = "Complete" /\ out[k].kind = "Complete"
        /\ out[i].off < out[k].off

RECURSIVE Flat(_)
Flat(log) == IF log = <<>> THEN <<>> ELSE Head(log).bytes \o Flat(Tail(log))

\* C4: what the framer has removed from the buffer (frames, each followed by
\* its delimiter unless the stream ended without one, and discarded bytes),
\* put together in order, and then what is still buffered, is exactly the
\* stream read so far: each piece lies where it was taken from, a delimiter
\* is a NUL right after a frame, and a frame holds no NUL.
C4_BytesAccounted ==
    \A c \in Conns :
        /\ Flat(conn[c].log) \o conn[c].buffer = conn[c].stream
        /\ \A i \in 1..Len(conn[c].log) :
              /\ conn[c].log[i].off = Len(Flat(SubSeq(conn[c].log, 1, i - 1)))
              /\ conn[c].log[i].kind = "delim" =>
                    /\ conn[c].log[i].bytes = <<NUL>>
                    /\ i > 1 /\ conn[c].log[i - 1].kind = "frame"
              /\ conn[c].log[i].kind = "frame" =>
                    /\ NUL \notin Range(conn[c].log[i].bytes)
                    /\ \/ i < Len(conn[c].log) /\ conn[c].log[i + 1].kind = "delim"
                       \/ i = Len(conn[c].log) /\ conn[c].eof
                          /\ conn[c].buffer = <<>>

\* A stream of which a frame with its delimiter, discarded bytes and a last
\* frame without delimiter have been removed.
C4_Witness ==
    \E c \in Conns :
        /\ \E i \in 1..Len(conn[c].log) : conn[c].log[i].kind = "discard"
        /\ \E i \in 1..Len(conn[c].log) : conn[c].log[i].kind = "delim"
        /\ Len(conn[c].log) > 0
        /\ conn[c].log[Len(conn[c].log)].kind = "frame"
        /\ conn[c].log[Len(conn[c].log)].bytes # <<>>

\* The bytes a step removes from the buffer of connection c.
NewlyConsumed(c) ==
    SubSeq(conn'[c].stream, Consumed(conn[c]) + 1, Consumed(conn'[c]))

EndsWithNul(bytes) == bytes # <<>> /\ bytes[Len(bytes)] = NUL
IsDiscard(e) == e.kind = "discard"
Discards(s) == SelectSeq(s.log, IsDiscard)

\* C5: the decoder is never given a frame (and so the loop never gets a
\* value) while discarding is true; whenever discarding is false every run
\* of discarded bytes ends with the NUL that cleared it, and while it is
\* true the bytes discarded last hold no such NUL yet; and discarding goes
\* from true to false only in a step that removes a NUL from the buffer.
C5_SilentWhileDiscarding ==
    /\ [](\A c \in Conns :
            /\ \A e \in Range(Frames(conn[c])) : ~e.discarding
            /\ ~conn[c].discarding =>
                  \A e \in Range(Discards(conn[c])) : EndsWithNul(e.bytes)
            /\ conn[c].discarding =>
                  /\ conn[c].log # <<>>
                  /\ IsDiscard(conn[c].log[Len(conn[c].log)])
                  /\ ~EndsWithNul(conn[c].log[Len(conn[c].log)].bytes))
    /\ [][\A c \in Conns :
            conn[c].discarding /\ ~conn'[c].discarding
                => NUL \in Range(NewlyConsumed(c))]_vars

\* A record was discarded up to its NUL, the flag is false again and the
\* next record was handed to the decoder.
C5_Witness ==
    \E c \in Conns : \E i \in 1..Len(conn[c].log) :
        /\ i > 1
        /\ conn[c].log[i].kind = "frame"
        /\ conn[c].log[i - 1].kind = "discard"
        /\ EndsWithNul(conn[c].log[i - 1].bytes)
        /\ ~conn[c].discarding

\* C6: the active set never holds more than max sessions and holds exactly
\* the accepted connections that have not ended; a connection that has not
\* been admitted to it has had nothing read from it, has given the decoder
\* no frame and the loop no value.
C6_ActiveSetBounded ==
    /\ Cardinality(connections) <= max
    /\ connections = {c \in Conns : conn[c].st = "active"}
    /\ \A c \in Conns :
          conn[c].st \in {"idle", "backlog"} =>
              /\ conn[c].stream = <<>>
              /\ conn[c].log = <<>>
              /\ FromConn(c) = <<>>

\* More connections than max were accepted in all, one of them has ended,
\* and the connection that had to wait has given the loop a value.
C6_Witness ==
    /\ metrics.tcp_conn_accept > max
    /\ \E c \in Conns : conn[c].st = "gone"
    /\ \E c \in Conns : c > max /\ FromConn(c) # <<>>

\* C7: when run has returned from the event loop, Handle::close was called
\* or an interrupt arrived; a Handle that was dropped does not end the loop.
C7_ReturnsOnlyOnCloseOrInterrupt ==
    loop = "stopped" => (handle = "closed" \/ exit = "ctrl_c")

IsComplete(item) == item.kind = "Complete"

\* C8: between two turns of the loop and when it has exited, every Complete
\* the loop got was given to process, once: receive_ok counts the Completes
\* received, each has the answer of process, and
\* receive_ok = process_ok + process_err.
C8_NoUnprocessedComplete ==
    /\ metrics.receive_ok = metrics.process_ok + metrics.process_err
    /\ metrics.receive_ok = Len(SelectSeq(out, IsComplete))
    /\ metrics.process_err =
          Len(SelectSeq(out, LAMBDA item : item.process = "Err"))
    /\ \A i \in 1..Len(out) :
          out[i].process \in {"Ok", "Err"} <=> IsComplete(out[i])

\* The loop has exited after a Complete that process accepted and one on
\* which process failed.
C8_Witness ==
    /\ loop = "stopped"
    /\ metrics.process_ok >= 1
    /\ metrics.process_err >= 1

\* C9: once Handle::close was called and the loop is running, the loop
\* exits, whatever the receiver yields.
C9_CloseEndsLoop == (handle = "closed" /\ loop = "running") ~> (loop = "stopped")

\* The loop took the close arm after Handle::close, having received values,
\* while a connection had sent the beginning of a further record.
C9_Witness ==
    /\ exit = "close"
    /\ handle = "closed"
    /\ out # <<>>
    /\ \E c \in Conns : conn[c].buffer # <<>>

\* C10: an Err from the receiver adds one to receive_err and a failure of
\* process adds one to process_err, and both leave the loop running; the
\* loop stops running only by its close arm or its interrupt arm.
C10_OnlyShutdownEndsLoop ==
    [][/\ (loop = "running" /\ loop' # "running") =>
              (loop' = "stopped" /\ exit = "none" /\ exit' \in {"close", "ctrl_c"})
       /\ (Len(out') > Len(out) /\ out'[Len(out')].kind = "Err") =>
              (loop' = "running"
               /\ metrics'.receive_err = metrics.receive_err + 1)
       /\ (Len(out') > Len(out) /\ out'[Len(out')].process = "Err") =>
              (loop' = "running"
               /\ metrics'.process_err = metrics.process_err + 1)
       /\ metrics'.receive_err # metrics.receive_err =>
              (Len(out') > Len(out) /\ out'[Len(out')].kind = "Err")
       /\ metrics'.process_err # metrics.process_err =>
              (Len(out') > Len(out) /\ out'[Len(out')].process = "Err")]_vars

\* After an Err of the receiver and after a failure of process the loop, still
\* running, received a later Complete and processed it.
C10_Witness ==
    /\ loop = "running"
    /\ \E i, j, k \in 1..Len(out) :
          /\ i < k /\ j < k
          /\ out[i].kind = "Err"
          /\ out[j].process = "Err"
          /\ out[k].process = "Ok"

\* C11: when the socket could not be bound the caller is told so: build or
\* run has returned Err, never Ok from build followed by Ok from run.
C11_BindFailureReturned ==
    loop = "failed" => (build_result = "Err" \/ run_result = "Err")

\* The step ends session c by its watchdog.
TimesOut(c) ==
    /\ conn[c].st = "active" /\ conn'[c].st = "gone"
    /\ metrics'.tcp_conn_timeout # metrics.tcp_conn_timeout

\* The step reads bytes from connection c and the loop gets no value.
ReadsInSilence(c) ==
    /\ Len(conn'[c].stream) > Len(conn[c].stream)
    /\ out' = out

\* C12: the delay of a session is reset when the session gives the loop a
\* value and not when bytes arrive that complete no frame; a session is
\* ended by its watchdog only after a full keep-alive period without a
\* value, and then even in a poll that reads bytes: the loop gets nothing
\* (no Err, receive_err unchanged), tcp_conn_timeout and tcp_conn_close go
\* up by one each and the session has left the active set.
C12_WatchdogResetsOnEmission ==
    [][\A c \in Conns :
         /\ TimesOut(c) =>
               /\ conn[c].idle = KeepAlive
               /\ metrics'.tcp_conn_timeout = metrics.tcp_conn_timeout + 1
               /\ metrics'.tcp_conn_close = metrics.tcp_conn_close + 1
               /\ out' = out
               /\ metrics'.receive_err = metrics.receive_err
               /\ c \notin connections'
         /\ (ReadsInSilence(c) /\ conn'[c].st = "active") =>
               /\ conn'[c].idle = conn[c].idle
               /\ conn[c].idle < KeepAlive
         /\ (ReadsInSilence(c) /\ conn[c].idle = KeepAlive) => TimesOut(c)
         /\ (Len(out') > Len(out) /\ out'[Len(out')].conn = c
               /\ conn'[c].st = "active") => conn'[c].idle = 0]_vars

\* A session gave the loop a value, then let a keep-alive period pass while
\* bytes that complete no frame arrived, and was ended by its watchdog.
C12_Witness ==
    \E c \in Conns :
        /\ conn[c].st = "gone"
        /\ conn[c].idle = KeepAlive
        /\ FromConn(c) # <<>>
        /\ conn[c].buffer # <<>>
        /\ metrics.tcp_conn_timeout = 1
        /\ metrics.tcp_conn_close = 1
        /\ metrics.receive_err = 0

\* The sessions that were constructed, and those that were destroyed.
Constructed == {c \in Conns : conn[c].st \in {"active", "gone"}}
Destroyed == {c \in Conns : conn[c].st = "gone"}

\* C13: tcp_conn_accept counts the sessions constructed and tcp_conn_close
\* the sessions destroyed, once each whatever ended the session, so their
\* difference is the number of sessions that exist: those of the active set.
C13_AcceptMinusCloseIsLive ==
    /\ metrics.tcp_conn_accept = Cardinality(Constructed)
    /\ metrics.tcp_conn_close = Cardinality(Destroyed)
    /\ connections = Constructed \ Destroyed
    /\ metrics.tcp_conn_accept - metrics.tcp_conn_close
         = Cardinality(connections)

\* Sessions ended by the watchdog and by an error, and one still exists.
C13_Witness ==
    /\ metrics.tcp_conn_timeout >= 1
    /\ metrics.receive_err >= 1
    /\ metrics.tcp_conn_close >= 2
    /\ connections # {}

\* The step gives the loop one value, of connection c.
Returned(c) ==
    /\ Len(out') = Len(out) + 1
    /\ out'[Len(out')].conn = c

\* C16: a session whose value is Ok stays in the active set; an Err is
\* returned once and its session is evicted, so the Err is the last value
\* of its connection whatever is still buffered behind the failing record;
\* a session that ends is evicted and the loop gets no value for it.
C16_ErrEvictsOkKeeps ==
    [][\A c \in Conns :
         /\ (Returned(c) /\ out'[Len(out')].kind # "Err") =>
               c \in connections'
         /\ (Returned(c) /\ out'[Len(out')].kind = "Err") =>
               /\ c \notin connections'
               /\ conn'[c].st = "gone"
         /\ conn[c].st = "gone" => FromConn(c)' = FromConn(c)
         /\ (c \in connections /\ c \notin connections'
               /\ loop' = "running" /\ out' # out) =>
               /\ Returned(c)
               /\ out'[Len(out')].kind = "Err"]_vars

\* A session was evicted on an Err with a whole record still in its buffer,
\* and another session ended without a value.
C16_Witness ==
    \E c, e \in Conns :
        /\ conn[c].st = "gone"
        /\ FromConn(c) # <<>>
        /\ FromConn(c)[Len(FromConn(c))].kind = "Err"
        /\ \E i \in 1..Len(conn[c].buffer) : conn[c].buffer[i] = NUL
        /\ conn[e].st = "gone" /\ FromConn(e) = <<>>
        /\ loop = "running"

\* The frames the decoder was given that no delimiter followed.
Residual(s) ==
    {i \in 1..Len(s.log) :
        /\ s.log[i].kind = "frame"
        /\ (i = Len(s.log) \/ s.log[i + 1].kind # "delim")}

\* The step reads the end of connection c.
ReadsEof(c) == ~conn[c].eof /\ conn'[c].eof

\* The step reads the end of connection c and nothing else of it: decode
\* has returned Ok(None) on what is in the buffer.
ReadsOnlyEof(c) == ReadsEof(c) /\ ~conn[c].is_readable

\* C17: a frame without its delimiter is given to the decoder only at the
\* end of the stream: it is the bytes left in the buffer while scanning,
\* none of them a NUL, it is the last thing the framer does and the buffer
\* is empty after it.  The read of the end gives the bytes left to the
\* decoder once, whole, and the loop gets one value; with nothing left or
\* while discarding the decoder is not invoked; in both cases the session
\* ends with its next poll at the latest.
C17_ResidualOnlyAtEof ==
    /\ [](\A c \in Conns : \A i \in Residual(conn[c]) :
            LET s == conn[c]
                e == s.log[i]
            IN  /\ s.eof
                /\ i = Len(s.log)
                /\ e.bytes # <<>>
                /\ \A k \in 1..Len(e.bytes) : e.bytes[k] # NUL
                /\ e.off + Len(e.bytes) = Len(s.stream)
                /\ ~e.discarding
                /\ s.buffer = <<>>
                /\ Cardinality(Residual(s)) = 1)
    /\ [][\A c \in Conns :
            /\ (ReadsOnlyEof(c) /\ conn[c].buffer # <<>>
                  /\ ~conn[c].discarding) =>
                  /\ Returned(c)
                  /\ conn'[c].log
                       = Append(conn[c].log,
                                Entry("frame", Consumed(conn[c]),
                                      conn[c].buffer, FALSE))
                  /\ conn'[c].buffer = <<>>
            /\ (ReadsOnlyEof(c)
                  /\ (conn[c].buffer = <<>> \/ conn[c].discarding)) =>
                  /\ out' = out
                  /\ conn'[c].log = conn[c].log
                  /\ conn'[c].st = "gone"
            /\ (conn[c].eof /\ conn[c].buffer = <<>>) =>
                  /\ FromConn(c)' = FromConn(c)
                  /\ conn'[c].log = conn[c].log
                  /\ conn'[c].st # conn[c].st => conn'[c].st = "gone"]_vars

\* After a delimited record the stream ended on bytes without a delimiter:
\* the decoder was given them and the session has ended by itself.
C17_Witness ==
    \E c \in Conns :
        /\ Residual(conn[c]) # {}
        /\ Len(conn[c].log) >= 3
        /\ Len(FromConn(c)) >= 2
        /\ conn[c].st = "gone"
        /\ loop = "running"
        /\ metrics.tcp_conn_timeout = 0
        /\ metrics.receive_err = 0

\* C20: when decode has returned Ok(None) the buffer it keeps holds at most
\* max_size_bytes bytes while scanning and none while discarding; so do the
\* bytes left at the end of the stream, which decode has just scanned.
C20_RetainedBufferBounded ==
    \A c \in Conns :
        /\ ~conn[c].is_readable =>
              /\ conn[c].discarding => conn[c].buffer = <<>>
              /\ ~conn[c].discarding => Len(conn[c].buffer) <= max_size_bytes
        /\ \A i \in Residual(conn[c]) :
              Len(conn[c].log[i].bytes) <= max_size_bytes

\* A record longer than the limit is being read: decode has returned
\* Ok(None) more than once while discarding, and kept nothing.
C20_Witness ==
    \E c \in Conns :
        /\ conn[c].st = "active"
        /\ ~conn[c].is_readable
        /\ conn[c].discarding
        /\ conn[c].buffer = <<>>
        /\ Len(conn[c].stream) > max_size_bytes + 2
        /\ \A k \in 1..Len(conn[c].stream) : conn[c].stream[k] # NUL

\* What Listen::poll_next returns when the active set polls session c.
ListenReturns(c, rd, fired) ==
    Listen_poll_next(ListenState(conn, backlog, connections, metrics, accept),
                     c, rd, fired, "Some")

\* C14: Listen::poll_next reports the end of its output only when the
\* stream it accepts from is done and the active set is empty, whichever
\* session was polled and whatever that session's read returned.
C14_EndsOnlyWhenDrained ==
    \A c \in Woken \cup {0}, rd \in {Pending, Eof}, fired \in BOOLEAN :
        ListenReturns(c, rd, fired).item.kind = "None" =>
            /\ ListenReturns(c, rd, fired).accept = "done"
            /\ ListenReturns(c, rd, fired).connections = {}

\* The step receives a datagram.
Datagram == udp'.received = udp.received + 1

\* process was called once: one of its two counters went up by one.
ProcessedOnce ==
    \/ metrics' = [metrics EXCEPT !.receive_ok = @ + 1, !.process_ok = @ + 1]
    \/ metrics' = [metrics EXCEPT !.receive_ok = @ + 1, !.process_err = @ + 1]

\* C15: every datagram makes one invocation of the decoder, on all of its
\* bytes, and nothing is kept in the buffer for the next one; Some becomes a
\* Complete and one call of process, None an Incomplete with no call and no
\* counter changed, an error an Err that changes receive_err alone.
C15_DatagramIsOneFrame ==
    /\ [](udp.rd = <<>> /\ udp.frame = udp.datagram
            /\ udp.calls = udp.received)
    /\ [][Datagram =>
            /\ udp'.calls = udp.calls + 1
            /\ udp'.frame = udp'.datagram
            /\ Len(out') = Len(out) + 1
            /\ udp'.result = "Some" =>
                  /\ out'[Len(out')].kind = "Complete"
                  /\ out'[Len(out')].process \in {"Ok", "Err"}
                  /\ ProcessedOnce
            /\ udp'.result = "None" =>
                  /\ out'[Len(out')].kind = "Incomplete"
                  /\ out'[Len(out')].process = "none"
                  /\ metrics' = metrics
            /\ udp'.result = "Err" =>
                  /\ out'[Len(out')].kind = "Err"
                  /\ out'[Len(out')].process = "none"
                  /\ metrics' = [metrics EXCEPT !.receive_err = @ + 1]]_vars

\* Datagrams gave a Complete, an Incomplete and an Err; the last one had a
\* NUL before its last byte and the decoder was given all of it.
C15_Witness ==
    /\ udp.received = MaxDatagrams
    /\ {out[i].kind : i \in 1..Len(out)} = {"Complete", "Incomplete", "Err"}
    /\ Len(udp.datagram) >= 2
    /\ udp.datagram[1] = NUL
    /\ udp.frame = udp.datagram
    /\ metrics.receive_ok = 1 /\ metrics.receive_err = 1

\* The first part of a record of connection c is in the buffer: decode has
\* scanned it, found no delimiter and returned Ok(None).
FirstPart(c) ==
    /\ conn[c].st = "active"
    /\ ~conn[c].is_readable /\ ~conn[c].eof
    /\ ~conn[c].discarding
    /\ conn[c].buffer # <<>>

\* The step reads the rest of that record: the delimiter.
ReadsRest(c) ==
    /\ FirstPart(c)
    /\ Len(conn'[c].stream) = Len(conn[c].stream) + 1
    /\ conn'[c].stream[Len(conn'[c].stream)] = NUL

\* C18 as stated: for the first part of a split record the loop observes an
\* Incomplete.
C18_IncompleteForFirstPart ==
    \A c \in Conns :
        FirstPart(c) =>
            \E i \in 1..Len(FromConn(c)) :
                /\ FromConn(c)[i].kind = "Incomplete"
                /\ FromConn(c)[i].off = Consumed(conn[c])

\* C18, amended: when the first part of a split record is read the loop
\* observes nothing and no counter changes (but tcp_conn_accept, if the read
\* is the first of a session just accepted); when the rest is read the loop
\* gets one value, for the frame that is the whole record, and if the
\* decoder has answered Some it is a Complete and process is called once.
C18_NothingForFirstPart ==
    [][\A c \in Conns :
         /\ (FirstPart(c)' /\ Len(conn'[c].stream) > Len(conn[c].stream)) =>
               /\ out' = out
               /\ metrics' = [metrics EXCEPT !.tcp_conn_accept =
                                                metrics'.tcp_conn_accept]
         /\ ReadsRest(c) =>
               /\ Returned(c)
               /\ out'[Len(out')].off = Consumed(conn[c])
               /\ LastFrame(conn'[c]).off = Consumed(conn[c])
               /\ LastFrame(conn'[c]).bytes = conn[c].buffer
               /\ out'[Len(out')].kind = "Complete" => ProcessedOnce
               /\ out'[Len(out')].kind = "Incomplete" => metrics' = metrics]_vars

\* A record came in two reads, its first part and then its delimiter: the
\* loop has seen one Complete, processed once, and never an Incomplete.
C18_Witness ==
    \E c \in Conns :
        /\ Len(FromConn(c)) = 1
        /\ FromConn(c)[1].kind = "Complete"
        /\ LastFrame(conn[c]).bytes # <<>>
        /\ Len(conn[c].stream) = Len(LastFrame(conn[c]).bytes) + 1
        /\ metrics.receive_ok = 1
        /\ metrics.process_ok = 1

\* C19: two framers that have read the same stream to its end, each with
\* its own splitting into reads, have given the decoder the same frames in
\* the same order and counted the same number of overflows.
C19_SplittingDoesNotMatter ==
    (split.left.done /\ split.right.done) =>
        /\ split.left.frames = split.right.frames
        /\ split.left.overflow = split.right.overflow

\* A stream with a record over the limit, a record within it and bytes
\* after the last delimiter was read to its end in one read by one framer
\* and byte by byte by the other.
C19_Witness ==
    /\ split.left.done /\ split.right.done
    /\ Len(split.stream) = SplitBytes
    /\ Len(split.left.reads) = 1
    /\ Len(split.right.reads) = SplitBytes
    /\ split.left.overflow >= 1
    /\ Len(split.left.frames) >= 2
    /\ split.stream[SplitBytes] # NUL

\* The states decode may be entered in on connection c: the buffer as it
\* is, or with the bytes of a read appended; at the end of the stream
\* nothing more is appended.
Entries(c) ==
    {DecodeState(conn[c].buffer \o b, conn[c].read_head, conn[c].discarding,
                 Consumed(conn[c]), conn[c].log) :
        b \in IF conn[c].eof THEN {<<>>}
              ELSE Chunks(MaxBytes - Len(conn[c].stream))}

\* src[read_head..] is in bounds.
HeadInBounds(d) == d.read_head <= Len(d.src)

\* While scanning, no NUL lies before read_head.
ScannedPrefixClean(d) ==
    ~d.discarding =>
        \A i \in 1..Min2(d.read_head, Len(d.src)) : d.src[i] # NUL

\* Every iteration is entered with read_head in bounds and a clean
\* prefix, and with read_head 0 when the one before has discarded bytes;
\* the iterations are those of decode.
IterationsOk(its) ==
    /\ \A i \in 1..Len(its) : HeadInBounds(its[i]) /\ ScannedPrefixClean(its[i])
    /\ \A i \in 1..(Len(its) - 1) :
          Len(its[i + 1].src) < Len(its[i].src) => its[i + 1].read_head = 0
    /\ decode(its[Len(its)], "Some") = decode(its[1], "Some")

\* What a call returns with: read_head is 0 after a frame was given to the
\* decoder and when the call ends on a discard, and no slice was out of
\* bounds.
ReturnsOk(res) ==
    /\ res.ret # "Panic"
    /\ res.ret # "None" => res.read_head = 0
    /\ (res.ret = "None" /\ res.discarding) => res.read_head = 0
    /\ HeadInBounds(res) /\ ScannedPrefixClean(res)

\* C21: whenever decode is entered, and at every iteration of its loop,
\* read_head is at most the length of the buffer, and while scanning no NUL
\* lies in the first read_head bytes; read_head is 0 after every frame given
\* to the decoder, after every discard and after the delivery at the end of
\* the stream.
C21_ReadHeadInBounds ==
    \A c \in connections :
        /\ HeadInBounds(DecodeOf(conn[c]))
        /\ ScannedPrefixClean(DecodeOf(conn[c]))
        /\ \A d0 \in Entries(c) :
              /\ IterationsOk(Iterations(d0))
              /\ \A r \in DecoderResult : ReturnsOk(decode(d0, r))
        /\ \A r \in DecoderResult :
              ReturnsOk(decode_eof(DecodeOf(conn[c]), r))

\* After an oversize record was discarded and a frame delivered the framer
\* scans the first part of a record: read_head is past it and not 0.
C21_Witness ==
    \E c \in Conns :
        /\ conn[c].st = "active"
        /\ ~conn[c].is_readable /\ ~conn[c].discarding
        /\ conn[c].read_head > 0
        /\ conn[c].read_head = Len(conn[c].buffer)
        /\ \E i, j \in 1..Len(conn[c].log) :
              /\ i < j
              /\ conn[c].log[i].kind = "discard"
              /\ conn[c].log[j].kind = "frame"
====
